---- MODULE Spec2Model ----
(***************************************************************************)
(* A model of json2pdf.py: the structure detector, the math translator,    *)
(* the two escaping passes with their URL linking, the LaTeX renderer, the *)
(* external generation adapter and the Streamlit session that calls them.  *)
(*                                                                         *)
(* A text is a sequence of characters; a character is a one-character      *)
(* string, or the code point name ("U+03B1") of a non-ASCII character.     *)
(***************************************************************************)
EXTENDS Integers, Sequences, FiniteSets, TLC

(***************************************************************************)
(* Characters: the classes of Python's re for str patterns.                *)
(***************************************************************************)
UpperCase == <<"A","B","C","D","E","F","G","H","I","J","K","L","M",
               "N","O","P","Q","R","S","T","U","V","W","X","Y","Z">>
LowerCase == <<"a","b","c","d","e","f","g","h","i","j","k","l","m",
               "n","o","p","q","r","s","t","u","v","w","x","y","z">>

Letters == {UpperCase[j] : j \in DOMAIN UpperCase} \cup {LowerCase[j] : j \in DOMAIN LowerCase}

\* \d
Digits == {"0","1","2","3","4","5","6","7","8","9"}

\* \s, and the characters str.strip() removes
Spaces == {" ", "\t", "\n", "\r"}

\* The symbols process_math_text writes (lines 215-235) are named by code point.
\* Of those, the ones \w matches (letters, modifier letters, superscript digits):
WordSymbols == {"U+211D", "U+207F", "U+03A3", "U+03B1", "U+03B2", "U+03B3", "U+03B4", "U+03B5",
                "U+03B8", "U+03BB", "U+03C0", "U+03C3", "U+03C9", "U+02E3", "U+00B2", "U+00B3"}

\* \w
WordChars == Letters \cup Digits \cup {"_"} \cup WordSymbols

\* Case folding of re.IGNORECASE, on the characters the patterns name.
Lower(c) ==
    IF \E j \in DOMAIN UpperCase : UpperCase[j] = c
    THEN LowerCase[CHOOSE j \in DOMAIN UpperCase : UpperCase[j] = c]
    ELSE c

(***************************************************************************)
(* Regular expressions, as the trees re compiles the patterns to, and a    *)
(* backtracking matcher that lists the matches from a position in the      *)
(* order re tries them: the first is the one re.search reports.            *)
(***************************************************************************)
Chr(c)     == [k |-> "chr", c |-> c]
In(cs)     == [k |-> "in", cs |-> cs]
NotIn(cs)  == [k |-> "notin", cs |-> cs]
Cat(rs)    == [k |-> "cat", rs |-> rs]
Star(r)    == [k |-> "star", r |-> r]
Plus(r)    == [k |-> "cat", rs |-> <<r, [k |-> "star", r |-> r]>>]
Opt(r)     == [k |-> "alt", rs |-> <<r, [k |-> "cat", rs |-> <<>>]>>]
Alt(rs)    == [k |-> "alt", rs |-> rs]
Grp(n, r)  == [k |-> "grp", n |-> n, r |-> r]
WordB      == [k |-> "wordb"]
Bos        == [k |-> "bos"]
Eos        == [k |-> "eos"]
Lit(s)     == [k |-> "lit", s |-> s]

NoGroups == <<<<0, 0>>, <<0, 0>>, <<0, 0>>>>

IsWordAt(t, p) == p >= 1 /\ p <= Len(t) /\ t[p] \in WordChars

RECURSIVE Concat(_, _, _)
\* The sequences ps[lo..hi], one after the other.
Concat(ps, lo, hi) ==
    IF lo > hi THEN <<>>
    ELSE IF lo = hi THEN ps[lo]
    ELSE LET mid == (lo + hi) \div 2
         IN  Concat(ps, lo, mid) \o Concat(ps, mid + 1, hi)

RECURSIVE M(_, _, _, _), MAll(_, _, _, _, _), MCat(_, _, _, _, _), MAlt(_, _, _, _, _)
\* The matches of re in t from state st (a position p and the groups g), in
\* priority order; ic is re.IGNORECASE.
M(re, t, st, ic) ==
    CASE re.k = "chr" ->
           IF st.p <= Len(t) /\ (IF ic THEN Lower(t[st.p]) = Lower(re.c) ELSE t[st.p] = re.c)
           THEN <<[st EXCEPT !.p = @ + 1]>> ELSE <<>>
      [] re.k = "in" ->
           IF st.p <= Len(t) /\ t[st.p] \in re.cs
           THEN <<[st EXCEPT !.p = @ + 1]>> ELSE <<>>
      [] re.k = "notin" ->
           IF st.p <= Len(t) /\ t[st.p] \notin re.cs
           THEN <<[st EXCEPT !.p = @ + 1]>> ELSE <<>>
      [] re.k = "wordb" ->
           IF IsWordAt(t, st.p - 1) # IsWordAt(t, st.p) THEN <<st>> ELSE <<>>
      [] re.k = "bos" -> IF st.p = 1 THEN <<st>> ELSE <<>>
      [] re.k = "eos" ->
           IF st.p = Len(t) + 1 \/ (st.p = Len(t) /\ t[st.p] = "\n") THEN <<st>> ELSE <<>>
      [] re.k = "cat" -> MCat(re.rs, 1, t, <<st>>, ic)
      [] re.k = "alt" -> MAlt(re.rs, 1, t, st, ic)
      [] re.k = "lit" ->
           IF /\ st.p + Len(re.s) <= Len(t) + 1
              /\ \A j \in DOMAIN re.s :
                    IF ic THEN Lower(t[st.p + j - 1]) = Lower(re.s[j])
                    ELSE t[st.p + j - 1] = re.s[j]
           THEN <<[st EXCEPT !.p = @ + Len(re.s)]>> ELSE <<>>
      [] re.k = "star" ->
           \* re.r is one of "chr", "in", "notin" in every pattern of the program:
           \* the longest run first, then the shorter ones
           LET ok(q) == M(re.r, t, [st EXCEPT !.p = q], ic) # <<>>
               most  == CHOOSE n \in 0..(Len(t) + 1 - st.p) :
                          ~ok(st.p + n) /\ \A j \in 0..(n - 1) : ok(st.p + j)
           IN  [j \in 1..(most + 1) |-> [st EXCEPT !.p = st.p + most + 1 - j]]
      [] re.k = "grp" ->
           LET rs == M(re.r, t, st, ic)
           IN  [j \in DOMAIN rs |-> [rs[j] EXCEPT !.g[re.n] = <<st.p, rs[j].p>>]]

\* The matches of re from each of the states sts[k..], in order.
MAll(re, t, sts, k, ic) ==
    IF k > Len(sts) THEN <<>>
    ELSE M(re, t, sts[k], ic) \o MAll(re, t, sts, k + 1, ic)

\* The matches of rs[k..] in sequence from the states sts.
MCat(rs, k, t, sts, ic) ==
    IF k > Len(rs) \/ sts = <<>> THEN sts
    ELSE MCat(rs, k + 1, t, MAll(rs[k], t, sts, 1, ic), ic)

\* The matches of the alternatives rs[k..], the earlier alternative first.
MAlt(rs, k, t, st, ic) ==
    IF k > Len(rs) THEN <<>>
    ELSE M(rs[k], t, st, ic) \o MAlt(rs, k + 1, t, st, ic)

NoMatch == [found |-> FALSE, s |-> 0, e |-> 0, g |-> NoGroups]

\* re.search(re, t, pos): the leftmost match at or after position pos.
SearchFrom(re, t, pos, ic) ==
    LET at(q)  == M(re, t, [p |-> q, g |-> NoGroups], ic)
        starts == pos..(Len(t) + 1)
    IN  IF \A q \in starts : at(q) = <<>> THEN NoMatch
        ELSE LET s  == CHOOSE q \in starts :
                         at(q) # <<>> /\ \A r \in pos..(q - 1) : at(r) = <<>>
                 ms == at(s)
             IN  [found |-> TRUE, s |-> s, e |-> ms[1].p, g |-> ms[1].g]

Search(re, t, ic) == SearchFrom(re, t, 1, ic)

\* m.group(n) of a match in t
Group(t, m, n) == SubSeq(t, m.g[n][1], m.g[n][2] - 1)

\* A replacement template: characters, and the group references \1, \2, \3.
Expand(tmpl, t, m) ==
    Concat([j \in DOMAIN tmpl |->
              CASE tmpl[j] = "\\1" -> Group(t, m, 1)
                [] tmpl[j] = "\\2" -> Group(t, m, 2)
                [] tmpl[j] = "\\3" -> Group(t, m, 3)
                [] OTHER -> <<tmpl[j]>>],
           1, Len(tmpl))

RECURSIVE SubFrom(_, _, _, _, _)
\* re.sub(re, tmpl, t): every non-overlapping match, left to right.
SubFrom(re, tmpl, t, pos, ic) ==
    LET m == SearchFrom(re, t, pos, ic)
    IN  IF ~m.found \/ m.e = m.s THEN SubSeq(t, pos, Len(t))
        ELSE SubSeq(t, pos, m.s - 1) \o Expand(tmpl, t, m)
             \o SubFrom(re, tmpl, t, m.e, ic)

Sub(re, tmpl, t, ic) == SubFrom(re, tmpl, t, 1, ic)

\* str.replace(c, s) for a one-character c
Replace(t, c, s) ==
    Concat([j \in DOMAIN t |-> IF t[j] = c THEN s ELSE <<t[j]>>], 1, Len(t))

\* str.strip(): from the first to the last character that is no whitespace
Strip(t) ==
    LET inked == {j \in DOMAIN t : t[j] \notin Spaces}
    IN  IF inked = {} THEN <<>>
        ELSE SubSeq(t, CHOOSE j \in inked : \A q \in inked : j <= q,
                       CHOOSE j \in inked : \A q \in inked : j >= q)

(***************************************************************************)
(* TranscriptProcessor.detect_structure: the two marker patterns.          *)
(***************************************************************************)
s_chapter == <<"c","h","a","p","t","e","r">>
s_section == <<"s","e","c","t","i","o","n">>

\* r'\bchapter\s+(\d+)[:\s]*([^.]*)'
chapter_re ==
    Cat(<<WordB, Lit(s_chapter), Plus(In(Spaces)), Grp(1, Plus(In(Digits))),
          Star(In({":"} \cup Spaces)), Grp(2, Star(NotIn({"."})))>>)

\* r'\bsection\s+([\d.]+)[:\s]*([^.]*)'
section_re ==
    Cat(<<WordB, Lit(s_section), Plus(In(Spaces)), Grp(1, Plus(In(Digits \cup {"."}))),
          Star(In({":"} \cup Spaces)), Grp(2, Star(NotIn({"."})))>>)

chapter_match(txt) == Search(chapter_re, txt, TRUE)
section_match(txt) == Search(section_re, txt, TRUE)

\* Python's None, for the two cursors (lines 151-152); the cursors are 0-based
\* list indices as in the code.
None == -1

s_Chapter_     == <<"C","h","a","p","t","e","r"," ">>
s_Section_     == <<"S","e","c","t","i","o","n"," ">>
s_Introduction == <<"I","n","t","r","o","d","u","c","t","i","o","n">>

(***************************************************************************)
(* A transcript entry is what json.load gives for one element of the       *)
(* transcript array: kind "str" is an object whose text is a string,       *)
(* "missing" an object without the key text, "nonstr" an object whose text *)
(* is null, a number, a list or an object, and "nondict" an element that   *)
(* is not an object at all.  timestamp tells the entries apart.            *)
(***************************************************************************)
Entry(ts, kind, txt) == [timestamp |-> ts, kind |-> kind, text |-> txt]

\* entry.get('text', '') (lines 156, 349, 374, 505, 531)
entry_text(entry) == IF entry.kind = "str" THEN entry.text ELSE <<>>

\* entry.get(...) raises AttributeError on an element that is no dict, and
\* .strip() on a text that is no str (line 156)
entry_raises(entry) == entry.kind \in {"nonstr", "nondict"}

\* structure, as initialised on lines 149-153
empty_structure == [chapters |-> <<>>, current_chapter |-> None, current_section |-> None]

\* group(2).strip() or f"Chapter {chapter_num}" (lines 164, 180)
title_or(txt, m, prefix) ==
    LET t == Strip(Group(txt, m, 2))
    IN  IF t = <<>> THEN prefix \o Group(txt, m, 1) ELSE t

\* add_chapter without line 173: the section cursor is left as it was.
add_chapter_keeps_section(st, txt) ==
    LET m == chapter_match(txt)
    IN  [chapters |-> Append(st.chapters,
                             [number |-> Group(txt, m, 1),
                              title |-> title_or(txt, m, s_Chapter_),
                              sections |-> <<>>,
                              content |-> <<>>]),
         current_chapter |-> Len(st.chapters),
         current_section |-> st.current_section]

\* lines 163-173
add_chapter(st, txt) ==
    LET m == chapter_match(txt)
    IN  [chapters |-> Append(st.chapters,
                             [number |-> Group(txt, m, 1),
                              title |-> title_or(txt, m, s_Chapter_),
                              sections |-> <<>>,
                              content |-> <<>>]),
         current_chapter |-> Len(st.chapters),
         current_section |-> None]

\* add_section appending to the first chapter instead of the current one.
add_section_first_chapter(st, txt) ==
    LET m == section_match(txt)
    IN  [st EXCEPT !.chapters[1].sections =
                       Append(@, [number |-> Group(txt, m, 1),
                                  title |-> title_or(txt, m, s_Section_),
                                  content |-> <<>>]),
                   !.current_section = Len(st.chapters[1].sections)]

\* lines 179-187
add_section(st, txt) ==
    LET m  == section_match(txt)
        cc == st.current_chapter + 1
    IN  [st EXCEPT !.chapters[cc].sections =
                       Append(@, [number |-> Group(txt, m, 1),
                                  title |-> title_or(txt, m, s_Section_),
                                  content |-> <<>>]),
                   !.current_section = Len(st.chapters[cc].sections)]

\* default_chapter titled like a chapter without a title.
default_chapter_untitled(st) ==
    IF st.chapters = <<>>
    THEN [st EXCEPT !.chapters = <<[number |-> <<"1">>, title |-> s_Chapter_ \o <<"1">>,
                                    sections |-> <<>>, content |-> <<>>]>>,
                    !.current_chapter = 0]
    ELSE st

\* lines 198-205: the implicit chapter
default_chapter(st) ==
    IF st.chapters = <<>>
    THEN [st EXCEPT !.chapters = <<[number |-> <<"1">>, title |-> s_Introduction,
                                    sections |-> <<>>, content |-> <<>>]>>,
                    !.current_chapter = 0]
    ELSE st

\* add_content assigning the content list where the code appends to it.
add_content_assigns(st, entry) ==
    IF st.current_chapter # None
    THEN IF st.current_section # None
         THEN [st EXCEPT !.chapters[st.current_chapter + 1]
                          .sections[st.current_section + 1].content = <<entry>>]
         ELSE [st EXCEPT !.chapters[st.current_chapter + 1].content = <<entry>>]
    ELSE [st EXCEPT !.chapters = <<[number |-> <<"1">>, title |-> s_Introduction,
                                    sections |-> <<>>, content |-> <<entry>>]>>,
                    !.current_chapter = 0]

\* lines 191-206
add_content(st, entry) ==
    IF st.current_chapter # None
    THEN IF st.current_section # None
         THEN [st EXCEPT !.chapters[st.current_chapter + 1]
                          .sections[st.current_section + 1].content = Append(@, entry)]
         ELSE [st EXCEPT !.chapters[st.current_chapter + 1].content = Append(@, entry)]
    ELSE [default_chapter(st) EXCEPT !.chapters[1].content = Append(@, entry)]

\* Which way one iteration of the loop on lines 155-206 goes.
branch(st, entry) ==
    IF entry_raises(entry) THEN "raise"
    ELSE LET txt == Strip(entry_text(entry))
         IN  IF txt = <<>> THEN "skip"
             ELSE IF chapter_match(txt).found THEN "chapter"
             ELSE IF section_match(txt).found /\ st.current_chapter # None THEN "section"
             ELSE "content"

\* One iteration that does not raise: the structure after it.
loop_body(st, entry) ==
    LET txt == Strip(entry_text(entry))
        b    == branch(st, entry)
    IN  CASE b = "skip"    -> st
          [] b = "chapter" -> add_chapter(st, txt)
          [] b = "section" -> add_section(st, txt)
          [] b = "content" -> add_content(st, entry)

RECURSIVE detect_from(_, _, _)
detect_from(entries, n, st) ==
    IF n > Len(entries) THEN [raised |-> FALSE, structure |-> st]
    ELSE IF branch(st, entries[n]) = "raise" THEN [raised |-> TRUE, structure |-> st]
    ELSE detect_from(entries, n + 1, loop_body(st, entries[n]))

\* detect_structure(transcript) as one call: the structure returned, or raised.
detect_structure(entries) == detect_from(entries, 1, empty_structure)

(***************************************************************************)
(* TranscriptProcessor.process_math_text: the ordered rule list, every     *)
(* rule applied with re.sub(..., flags=re.IGNORECASE) to the result of the *)
(* one before.                                                             *)
(***************************************************************************)
W == Plus(In(WordChars))

\* \bname\b
word_re(name) == Cat(<<WordB, Lit(name), WordB>>)

\* lines 214-236
conversions == <<
    <<Cat(<<WordB, Lit(<<"R","^","n">>), WordB>>), <<"U+211D", "U+207F">>>>,
    <<Cat(<<WordB, Lit(<<"R","^">>), Grp(1, Plus(In(Digits)))>>), <<"U+211D", "^", "\\1">>>>,
    <<Cat(<<Lit(<<"s","q","r","t","(">>), Grp(1, Plus(NotIn({")"}))), Chr(")")>>),
      <<"U+221A", "(", "\\1", ")">>>>,
    <<Cat(<<Lit(<<"s","u","m"," ","f","r","o","m"," ">>), Grp(1, W), Chr("="), Grp(2, W),
            Lit(<<" ","t","o"," ">>), Grp(3, W)>>),
      <<"U+03A3", "(", "\\1", "=", "\\2", " ", "t", "o", " ", "\\3", ")">>>>,
    <<Cat(<<Lit(<<"i","n","t","e","g","r","a","l"," ","f","r","o","m"," ">>), Grp(1, W),
            Lit(<<" ","t","o"," ">>), Grp(2, W)>>),
      <<"U+222B", "(", "\\1", " ", "t", "o", " ", "\\2", ")">>>>,
    <<Cat(<<Lit(<<"l","i","m"," ","a","s"," ">>), Grp(1, W), Chr(" "),
            Alt(<<Lit(<<"a","p","p","r","o","a","c","h","e","s">>), Lit(<<"-",">">>),
                  Chr("U+2192")>>),
            Chr(" "), Grp(2, W)>>),
      <<"l", "i", "m", "(", "\\1", "U+2192", "\\2", ")">>>>,
    <<word_re(<<"a","l","p","h","a">>), <<"U+03B1">>>>,
    <<word_re(<<"b","e","t","a">>), <<"U+03B2">>>>,
    <<word_re(<<"g","a","m","m","a">>), <<"U+03B3">>>>,
    <<word_re(<<"d","e","l","t","a">>), <<"U+03B4">>>>,
    <<word_re(<<"e","p","s","i","l","o","n">>), <<"U+03B5">>>>,
    <<word_re(<<"t","h","e","t","a">>), <<"U+03B8">>>>,
    <<word_re(<<"l","a","m","b","d","a">>), <<"U+03BB">>>>,
    <<word_re(<<"p","i">>), <<"U+03C0">>>>,
    <<word_re(<<"s","i","g","m","a">>), <<"U+03C3">>>>,
    <<word_re(<<"o","m","e","g","a">>), <<"U+03C9">>>>,
    <<Lit(<<"d","/","d","x">>), <<"d","/","d","x">>>>,
    <<Lit(<<"e","^","x">>), <<"e", "U+02E3">>>>,
    <<Lit(<<"x","^","2">>), <<"x", "U+00B2">>>>,
    <<Lit(<<"x","^","3">>), <<"x", "U+00B3">>>>,
    <<Lit(<<"x","^","n">>), <<"x", "U+207F">>>> >>

RECURSIVE convert_from(_, _)
\* lines 238-240: the rules n.. applied in order
convert_from(n, result) ==
    IF n > Len(conversions) THEN result
    ELSE LET next == Sub(conversions[n][1], conversions[n][2], result, TRUE)
         IN  \* (the comparison has TLC evaluate this rule before the next one)
             IF next = result THEN convert_from(n + 1, result)
             ELSE convert_from(n + 1, next)

\* lines 211-242
process_math_text(txt) == convert_from(1, txt)

(***************************************************************************)
(* The escaping passes and the URL linking of the two renderers.           *)
(***************************************************************************)
\* lines 353-362 (and again 377-386): the replace calls, in their order
latex_escapes == <<
    <<"\\", <<"\\","t","e","x","t","b","a","c","k","s","l","a","s","h","{","}">>>>,
    <<"&",  <<"\\","&">>>>,
    <<"%",  <<"\\","%">>>>,
    <<"$",  <<"\\","$">>>>,
    <<"#",  <<"\\","#">>>>,
    <<"_",  <<"\\","_">>>>,
    <<"{",  <<"\\","{">>>>,
    <<"}",  <<"\\","}">>>>,
    <<"~",  <<"\\","t","e","x","t","a","s","c","i","i","t","i","l","d","e","{","}">>>>,
    <<"^",  <<"\\","t","e","x","t","a","s","c","i","i","c","i","r","c","u","m","{","}">>>> >>

\* lines 511-513 (and again 537-539)
xml_escapes == <<
    <<"&", <<"&","a","m","p",";">>>>,
    <<"<", <<"&","l","t",";">>>>,
    <<">", <<"&","g","t",";">>>> >>

RECURSIVE replace_all(_, _, _)
\* text.replace(c, s) for each pair of table from n on, one after the other
replace_all(table, n, txt) ==
    IF n > Len(table) THEN txt
    ELSE replace_all(table, n + 1, Replace(txt, table[n][1], table[n][2]))

escape_latex(txt) == replace_all(latex_escapes, 1, txt)

\* escape_xml that also turns every space into an entity.
escape_xml_spaces(txt) ==
    Replace(replace_all(xml_escapes, 1, txt), " ", <<"&","n","b","s","p",";">>)

escape_xml(txt) == replace_all(xml_escapes, 1, txt)

\* r'(https?://[^\s]+)' (lines 365, 389, 517, 543)
url_re ==
    Grp(1, Cat(<<Lit(<<"h","t","t","p">>), Opt(Chr("s")), Lit(<<":","/","/">>),
                 Plus(NotIn(Spaces))>>))

\* line 365 (and 389): re.sub(url, r'\\url{\1}', text)
link_latex(txt) == Sub(url_re, <<"\\","u","r","l","{", "\\1", "}">>, txt, FALSE)

\* lines 516-520 (and 542-546): re.sub(url, r'<link href="\1" color="blue">\1</link>', text)
link_xml(txt) ==
    Sub(url_re,
        <<"<","l","i","n","k"," ","h","r","e","f","=","\"", "\\1",
          "\""," ","c","o","l","o","r","=","\"","b","l","u","e","\"",">", "\\1",
          "<","/","l","i","n","k",">">>,
        txt, FALSE)

(***************************************************************************)
(* What json.load gives for the input.  A document d has a shape: "object" *)
(* (a non-empty dict), "array" (a non-empty list: truthy, and no dict) or  *)
(* "empty" ({}, [], 0, "", null, false: falsy).  A field of an object is   *)
(* "absent", "null", or of the expected type: video_title and instructor a *)
(* "str" with its text s, transcript a "list" with its entries.            *)
(***************************************************************************)
Absent == [kind |-> "absent", s |-> <<>>]
Null   == [kind |-> "null", s |-> <<>>]
Str(t) == [kind |-> "str", s |-> t]
List(entries) == [kind |-> "list", s |-> entries]

Object(video_title, instructor, tr) ==
    [shape |-> "object", video_title |-> video_title, instructor |-> instructor,
     transcript |-> tr]
Array    == [shape |-> "array", video_title |-> Absent, instructor |-> Absent,
             transcript |-> Absent]
EmptyDoc == [shape |-> "empty", video_title |-> Absent, instructor |-> Absent,
             transcript |-> Absent]

\* Python's None for a value read out of the session state
Nothing == [none |-> TRUE]
Some(v) == [none |-> FALSE, v |-> v]

\* bool(x) of a parsed document or of None
truthy(x) == ~x.none /\ x.v.shape # "empty"

(***************************************************************************)
(* generate_latex_manual.  The document is the sequence of its parts: the  *)
(* fixed text of lines 317-340 is the parts "preamble", "title", "author"  *)
(* and "begin", then a "chapter", "par" or "section" for every line the    *)
(* loops add, then "end" (lines 393-394).                                  *)
(***************************************************************************)
s_Educational_Course ==
    <<"E","d","u","c","a","t","i","o","n","a","l"," ","C","o","u","r","s","e">>
s_Instructor == <<"I","n","s","t","r","u","c","t","o","r">>

\* lines 311-312: the three replace calls on the title and on the instructor
title_escapes == <<
    <<"&", <<"\\","&">>>>,
    <<"%", <<"\\","%">>>>,
    <<"$", <<"\\","$">>>> >>

\* transcript_json.get(key, default) for video_title and instructor
get_str(field, default) == IF field.kind = "absent" THEN default ELSE field.s

\* transcript_json.get('transcript', []) (lines 313, 486)
get_transcript(d) == IF d.transcript.kind = "list" THEN d.transcript.s ELSE <<>>

\* lines 311-316 raise: .get on a list, .replace on None, enumerate(None), or
\* detect_structure itself
manual_raises(d) ==
    \/ d.shape # "object"
    \/ d.video_title.kind = "null"
    \/ d.instructor.kind = "null"
    \/ d.transcript.kind = "null"
    \/ detect_structure(get_transcript(d)).raised

\* lines 349-367 and 374-391: the paragraph of one content entry; of is
\* history, the timestamp of the entry the paragraph was emitted for
latex_paragraph(entry) ==
    [kind |-> "par", of |-> entry.timestamp,
     text |-> link_latex(escape_latex(process_math_text(entry_text(entry))))]

RECURSIVE latex_paragraphs(_, _)
latex_paragraphs(content, n) ==
    IF n > Len(content) THEN <<>>
    ELSE <<latex_paragraph(content[n])>> \o latex_paragraphs(content, n + 1)

RECURSIVE latex_sections(_, _)
\* lines 370-391
latex_sections(sections, n) ==
    IF n > Len(sections) THEN <<>>
    ELSE <<[kind |-> "section", text |-> sections[n].title]>>
         \o latex_paragraphs(sections[n].content, 1)
         \o latex_sections(sections, n + 1)

RECURSIVE latex_chapters(_, _)
\* lines 344-391
latex_chapters(chapters, n) ==
    IF n > Len(chapters) THEN <<>>
    ELSE <<[kind |-> "chapter", text |-> chapters[n].title]>>
         \o latex_paragraphs(chapters[n].content, 1)
         \o latex_sections(chapters[n].sections, 1)
         \o latex_chapters(chapters, n + 1)

\* lines 308-396, for a document on which it does not raise
generate_latex_manual(d) ==
    <<[kind |-> "preamble", text |-> <<>>],
      [kind |-> "title",
       text |-> replace_all(title_escapes, 1, get_str(d.video_title, s_Educational_Course))],
      [kind |-> "author",
       text |-> replace_all(title_escapes, 1, get_str(d.instructor, s_Instructor))],
      [kind |-> "begin", text |-> <<>>]>>
    \o latex_chapters(detect_structure(get_transcript(d)).structure.chapters, 1)
    \o <<[kind |-> "end", text |-> <<>>]>>

(***************************************************************************)
(* generate_latex_with_ai.  The remote service answers with a response:    *)
(* "timeout" (requests.exceptions.Timeout), "error" (any other exception   *)
(* of requests.post), "status" (a status code other than 200), "badbody"   *)
(* (200 with a body that response.json()[...] cannot read) or "ok" with    *)
(* the content of the first choice.                                        *)
(***************************************************************************)
\* the backquote is written as its code point
ch_backquote == "U+0060"
fence == <<ch_backquote, ch_backquote, ch_backquote>>

\* line 297: at the start, three backquotes, word characters, an optional newline
fence_open_re == Cat(<<Bos, Lit(fence), Star(In(WordChars)), Opt(Chr("\n"))>>)

\* line 298: an optional newline and three backquotes at the end
fence_close_re == Cat(<<Opt(Chr("\n")), Lit(fence), Eos>>)

\* lines 297-299
clean_content(content) ==
    Strip(Sub(fence_close_re, <<>>, Sub(fence_open_re, <<>>, content, FALSE), FALSE))

\* lines 247-265: building the prompt raises on a list (.get) and on a
\* transcript that cannot be sliced
ai_raises(d) == d.shape # "object" \/ d.transcript.kind = "null"

\* lines 267-306, once the prompt is built: (text, error) for the response the
\* service gives; a text is a document of the one part "ai"
generate_latex_with_ai(response) ==
    CASE response.kind = "ok" ->
           [text |-> Some(<<[kind |-> "ai", text |-> clean_content(response.content)]>>),
            error |-> Nothing]
      [] response.kind = "status"  -> [text |-> Nothing, error |-> Some("API Error")]
      [] response.kind = "timeout" -> [text |-> Nothing, error |-> Some("Request timed out")]
      [] OTHER                     -> [text |-> Nothing, error |-> Some("Error")]

\* bool(latex_content) on line 741
has_text(r) == ~r.text.none /\ r.text.v[1].text # <<>>

(***************************************************************************)
(* generate_pdf_with_reportlab.  The document is the sequence elements of  *)
(* its paragraphs (spacers and page breaks left out): "title", "author",   *)
(* "date" and "toc_title" (lines 472-483), a "toc" line for every chapter  *)
(* and section (lines 490-495), then a "chapter", "par" or "section" for   *)
(* every paragraph the loops of lines 499-549 add.                         *)
(***************************************************************************)
s_by_ == <<"b","y"," ">>
s_None == <<"N","o","n","e">>
s_indent == <<" "," "," "," ">>

\* r'\bchapter\s+\d+\b' (line 506)
pdf_chapter_re == Cat(<<WordB, Lit(s_chapter), Plus(In(Spaces)), Plus(In(Digits)), WordB>>)

\* r'\bsection\s+[\d.]+\b' (line 532)
pdf_section_re ==
    Cat(<<WordB, Lit(s_section), Plus(In(Spaces)), Plus(In(Digits \cup {"."})), WordB>>)

\* pdf_keeps looking for both patterns in both containers.
pdf_keeps_either(stripped, in_section) ==
    /\ stripped # <<>>
    /\ ~Search(pdf_section_re, stripped, TRUE).found
    /\ ~Search(pdf_chapter_re, stripped, TRUE).found

\* The condition of lines 506 and 532 on the stripped text: the entry is rendered.
pdf_keeps(stripped, in_section) ==
    /\ stripped # <<>>
    /\ ~Search(IF in_section THEN pdf_section_re ELSE pdf_chapter_re, stripped, TRUE).found

\* f"Chapter {chapter['number']}: {chapter['title']}" (lines 491, 501) and
\* f"Section {section['number']}: {section['title']}" (lines 493, 528)
heading(prefix, part) == prefix \o part.number \o <<":", " ">> \o part.title

\* lines 505-524 and 531-549: the paragraph of one content entry that passes
\* the condition of line 506 or 532
pdf_paragraph(entry) ==
    [kind |-> "par", of |-> entry.timestamp,
     text |-> link_xml(escape_xml(process_math_text(Strip(entry_text(entry)))))]

RECURSIVE pdf_paragraphs(_, _, _)
pdf_paragraphs(content, n, in_section) ==
    IF n > Len(content) THEN <<>>
    ELSE (IF pdf_keeps(Strip(entry_text(content[n])), in_section)
          THEN <<pdf_paragraph(content[n])>> ELSE <<>>)
         \o pdf_paragraphs(content, n + 1, in_section)

RECURSIVE pdf_sections(_, _)
\* lines 527-549
pdf_sections(sections, n) ==
    IF n > Len(sections) THEN <<>>
    ELSE <<[kind |-> "section", text |-> heading(s_Section_, sections[n])]>>
         \o pdf_paragraphs(sections[n].content, 1, TRUE)
         \o pdf_sections(sections, n + 1)

RECURSIVE pdf_chapters(_, _)
\* lines 499-549
pdf_chapters(chapters, n) ==
    IF n > Len(chapters) THEN <<>>
    ELSE <<[kind |-> "chapter", text |-> heading(s_Chapter_, chapters[n])]>>
         \o pdf_paragraphs(chapters[n].content, 1, FALSE)
         \o pdf_sections(chapters[n].sections, 1)
         \o pdf_chapters(chapters, n + 1)

RECURSIVE toc_entries(_, _)
\* lines 489-493
toc_entries(chapters, n) ==
    IF n > Len(chapters) THEN <<>>
    ELSE <<[kind |-> "toc", text |-> heading(s_Chapter_, chapters[n])]>>
         \o [j \in 1..Len(chapters[n].sections) |->
               [kind |-> "toc",
                text |-> s_indent \o heading(s_Section_, chapters[n].sections[j])]]
         \o toc_entries(chapters, n + 1)

\* str(x) in an f-string, for a field that is a string or null (line 475)
format_str(field, default) ==
    IF field.kind = "null" THEN s_None ELSE get_str(field, default)

\* lines 469-549 raise before the try of line 552: .get on a list (line 469),
\* enumerate(None) and detect_structure itself (line 486)
pdf_raises(d) ==
    \/ d.shape # "object"
    \/ d.transcript.kind = "null"
    \/ detect_structure(get_transcript(d)).raised

\* Paragraph(title, title_style) on line 473 is given None when video_title is
\* null: what the library does with it is not in the source, so the call may
\* raise or go on.
paragraph_may_raise(d) == d.shape = "object" /\ d.video_title.kind = "null"

\* lines 468-549: elements, for a document on which it does not raise
pdf_elements(d) ==
    LET chapters == detect_structure(get_transcript(d)).structure.chapters
    IN  <<[kind |-> "title", text |-> get_str(d.video_title, s_Educational_Course)],
          [kind |-> "author", text |-> s_by_ \o format_str(d.instructor, s_Instructor)],
          [kind |-> "date", text |-> <<>>],
          [kind |-> "toc_title", text |-> <<>>]>>
        \o toc_entries(chapters, 1)
        \o pdf_chapters(chapters, 1)

\* lines 551-558: (pdf_bytes, error) for the elements and for what doc.build does,
\* "built" or "fails" (it raises, and the except clause takes it); the bytes
\* are modelled by the elements they were built from
build_pdf(parts, build) ==
    IF build = "built"
    THEN [pdf |-> Some(parts), error |-> Nothing]
    ELSE [pdf |-> Nothing, error |-> Some("PDF generation error")]

(***************************************************************************)
(* The inputs of the model.                                                *)
(***************************************************************************)
\* The longest transcript.
MaxLen == 3

t_ChapterBasics == <<"C","h","a","p","t","e","r"," ","1",":"," ","B","a","s","i","c","s">>
t_Hello         == <<"H","e","l","l","o"," ","w","o","r","l","d",".">>
t_Section11     == <<"S","e","c","t","i","o","n"," ","1",".","1",":"," ","T","y","p","e","s">>
t_chapter2      == <<"c","h","a","p","t","e","r"," ","2">>
t_seeChapter3   == <<"s","e","e"," ","c","h","a","p","t","e","r"," ","3"," ","n","o","w","."," ","o","k">>
t_ChapterSect   == <<"C","h","a","p","t","e","r"," ","4"," ","S","e","c","t","i","o","n"," ","4",".","1">>
t_blank         == <<" "," ">>

\* What one element of the transcript array may be.
EntryShapes ==
    {<<"str", t>> : t \in {t_ChapterBasics, t_Hello, t_Section11, t_chapter2,
                           t_seeChapter3, t_ChapterSect, t_blank}}
    \cup {<<"missing", <<>>>>, <<"nonstr", <<>>>>, <<"nondict", <<>>>>}

Transcripts ==
    UNION {{[j \in 1..k |-> Entry(j, f[j][1], f[j][2])] : f \in [1..k -> EntryShapes]}
           : k \in 0..MaxLen}

\* The most pieces a content text is put together from.
MaxPieces == 2

p_example == <<"s","e","e"," ","h","t","t","p","s",":","/","/","e","x","a","m","p","l","e",".",
               "o","r","g","/","p","a","g","e"," ","f","o","r"," ","d","e","t","a","i","l","s">>
p_percent == <<"5","0","%"," ","o","f","f">>
p_dollar  == <<"$","\\","a","l","p","h","a","$">>
p_url     == <<" ","h","t","t","p",":","/","/","a",".","i","o","/","b","_","c","?","d","&","e"," ">>
p_special == <<"\\","{","~","}","^","#">>
p_angle   == <<"x","<","y",">"," ","p","i">>
p_section == <<" ","S","e","c","t","i","o","n"," ","2"," ">>

Pieces == {p_example, p_percent, p_dollar, p_url, p_special, p_angle, p_section}

\* The content texts: up to MaxPieces pieces, one after the other.
Texts == UNION {{Concat(f, 1, k) : f \in [1..k -> Pieces]} : k \in 0..MaxPieces}

(***************************************************************************)
(* detect_structure, one iteration of its loop at a time.                  *)
(*   transcript  the argument                                              *)
(*   i           the entries scanned so far                                *)
(*   structure   the local of that name                                    *)
(*   consumed    history: the timestamps of the entries taken as markers   *)
(*   pc          "scan", then "done" (line 208) or "raised"                *)
(***************************************************************************)
VARIABLES transcript, i, structure, consumed, pc

(***************************************************************************)
(* The renderers' loops on the structure detect_structure has returned.    *)
(*   latex     what lines 343-391 add to the local of that name, a part    *)
(*             for every line                                              *)
(*   elements  what lines 498-549 add to the local of that name            *)
(* pc goes from "done" to "latex" or to "pdf".                             *)
(***************************************************************************)
VARIABLES latex, elements

(***************************************************************************)
(* One content entry on its way through a renderer's loop body.            *)
(*   text        the entry's text                                          *)
(*   fmt         "latex" (lines 348-367) or "pdf" (lines 504-524)          *)
(*   translated  text after process_math_text                              *)
(*   escaped     translated after the escaping pass                        *)
(*   linked      escaped after the URL linking: the paragraph emitted      *)
(* pc is "entry", then "math", "escaped", "linked", or "dropped" when the  *)
(* PDF renderer's filter skips the entry.                                  *)
(***************************************************************************)
VARIABLES text, fmt, translated, escaped, linked

(***************************************************************************)
(* The session of main: every action is one run of the script.             *)
(*   transcript_data, latex_content, pdf_bytes  st.session_state           *)
(*   api_key       the key field is filled in (line 659)                   *)
(*   use_ai        the checkbox of line 723                                *)
(*   input_choice  the radio of line 675: "upload", "paste" or "sample"    *)
(*   json_input    what the uploader or the text area holds                *)
(*   messages      what the run has shown in the sidebar with st.success,  *)
(*                 st.error, st.warning and st.info, in order              *)
(*   run           history: the button of the run, the answer of the       *)
(*                 remote service if it was asked, whether an exception    *)
(*                 ended the run, and the calls main made on the           *)
(*                 transcript data, each with how it ended                 *)
(*   memo          what the functions called in a run return for each      *)
(*                 argument of the session; it never changes               *)
(***************************************************************************)
VARIABLES transcript_data, latex_content, pdf_bytes, api_key, use_ai, input_choice,
          json_input, messages, run, memo

detectVars  == <<transcript, i, structure, consumed>>
renderVars  == <<latex, elements>>
textVars    == <<text, fmt, translated, escaped, linked>>
sessionVars == <<transcript_data, latex_content, pdf_bytes, api_key, use_ai, input_choice,
                 json_input, messages, run, memo>>

vars == <<transcript, i, structure, consumed, pc, latex, elements, text, fmt, translated, escaped, linked,
          transcript_data, latex_content, pdf_bytes, api_key, use_ai, input_choice,
          json_input, messages, run, memo>>

\* The variables of the parts a specification leaves alone.
NoDetect == transcript = <<>> /\ i = 0 /\ structure = empty_structure /\ consumed = {}
NoRender == latex = <<>> /\ elements = <<>>
NoText   == text = <<>> /\ fmt = "none" /\ translated = <<>> /\ escaped = <<>> /\ linked = <<>>
NoRun     == [button |-> "none", ai |-> "none", raised |-> FALSE, calls |-> {}]
NoInput   == [kind |-> "none", doc |-> EmptyDoc]
NoSession ==
    /\ transcript_data = Nothing /\ latex_content = Nothing /\ pdf_bytes = Nothing
    /\ api_key = FALSE /\ use_ai = FALSE /\ input_choice = "upload"
    /\ json_input = NoInput /\ messages = <<>> /\ run = NoRun /\ memo = <<>>

DetectInit ==
    /\ transcript \in Transcripts
    /\ i = 0
    /\ structure = empty_structure
    /\ consumed = {}
    /\ pc = "scan"
    /\ NoRender
    /\ NoText
    /\ NoSession

\* The loop is at an entry that goes the way b.
At(b) ==
    /\ pc = "scan"
    /\ i < Len(transcript)
    /\ branch(structure, transcript[i + 1]) = b

\* lines 157-158
ScanSkip ==
    /\ At("skip")
    /\ i' = i + 1
    /\ UNCHANGED <<transcript, structure, consumed, pc, renderVars, textVars, sessionVars>>

\* lines 161-174
ScanChapter ==
    /\ At("chapter")
    /\ structure' = add_chapter(structure, Strip(entry_text(transcript[i + 1])))
    /\ consumed' = consumed \cup {transcript[i + 1].timestamp}
    /\ i' = i + 1
    /\ UNCHANGED <<transcript, pc, renderVars, textVars, sessionVars>>

\* lines 177-188
ScanSection ==
    /\ At("section")
    /\ structure' = add_section(structure, Strip(entry_text(transcript[i + 1])))
    /\ consumed' = consumed \cup {transcript[i + 1].timestamp}
    /\ i' = i + 1
    /\ UNCHANGED <<transcript, pc, renderVars, textVars, sessionVars>>

\* lines 190-206
ScanContent ==
    /\ At("content")
    /\ structure' = add_content(structure, transcript[i + 1])
    /\ i' = i + 1
    /\ UNCHANGED <<transcript, consumed, pc, renderVars, textVars, sessionVars>>

\* line 156 raising AttributeError
ScanRaise ==
    /\ At("raise")
    /\ pc' = "raised"
    /\ UNCHANGED <<detectVars, renderVars, textVars, sessionVars>>

\* line 208
ScanReturn ==
    /\ pc = "scan"
    /\ i = Len(transcript)
    /\ pc' = "done"
    /\ UNCHANGED <<detectVars, renderVars, textVars, sessionVars>>

\* generate_latex_manual, lines 343-391, on the structure of line 316
RenderLatex ==
    /\ pc = "done"
    /\ latex' = latex_chapters(structure.chapters, 1)
    /\ pc' = "latex"
    /\ UNCHANGED <<detectVars, elements, textVars, sessionVars>>

\* generate_pdf_with_reportlab, lines 498-549, on the structure of line 486
RenderPdf ==
    /\ pc = "done"
    /\ elements' = pdf_chapters(structure.chapters, 1)
    /\ pc' = "pdf"
    /\ UNCHANGED <<detectVars, latex, textVars, sessionVars>>

DetectNext ==
    \/ ScanSkip
    \/ ScanChapter
    \/ ScanSection
    \/ ScanContent
    \/ ScanRaise
    \/ ScanReturn
    \/ RenderLatex
    \/ RenderPdf

SpecDetect == DetectInit /\ [][DetectNext]_vars

(***************************************************************************)
(* The loop body of the renderers on one content entry, a step at a time.  *)
(***************************************************************************)
TextInit ==
    /\ text \in Texts
    /\ pc = "entry"
    /\ fmt = "none"
    /\ translated = <<>>
    /\ escaped = <<>>
    /\ linked = <<>>
    /\ NoDetect
    /\ NoRender
    /\ NoSession

\* lines 349-351 (374-375)
LatexMath ==
    /\ pc = "entry"
    /\ fmt' = "latex"
    /\ translated' = process_math_text(text)
    /\ pc' = "math"
    /\ UNCHANGED <<text, escaped, linked, detectVars, renderVars, sessionVars>>

\* lines 353-362 (377-386)
LatexEscape ==
    /\ pc = "math" /\ fmt = "latex"
    /\ escaped' = escape_latex(translated)
    /\ pc' = "escaped"
    /\ UNCHANGED <<text, fmt, translated, linked, detectVars, renderVars, sessionVars>>

\* lines 365-367 (389-391)
LatexLink ==
    /\ pc = "escaped" /\ fmt = "latex"
    /\ linked' = link_latex(escaped)
    /\ pc' = "linked"
    /\ UNCHANGED <<text, fmt, translated, escaped, detectVars, renderVars, sessionVars>>

\* lines 505-508 (531-534): the entry is of a chapter's or of a section's content
PdfMath ==
    /\ pc = "entry"
    /\ \E in_section \in BOOLEAN :
         /\ pdf_keeps(Strip(text), in_section)
         /\ fmt' = "pdf"
         /\ translated' = process_math_text(Strip(text))
         /\ pc' = "math"
    /\ UNCHANGED <<text, escaped, linked, detectVars, renderVars, sessionVars>>

\* lines 506, 532: the condition fails and nothing is emitted for the entry
PdfDrop ==
    /\ pc = "entry"
    /\ \E in_section \in BOOLEAN :
         /\ ~pdf_keeps(Strip(text), in_section)
         /\ fmt' = "pdf"
         /\ pc' = "dropped"
    /\ UNCHANGED <<text, translated, escaped, linked, detectVars, renderVars, sessionVars>>

\* lines 511-513 (537-539)
PdfEscape ==
    /\ pc = "math" /\ fmt = "pdf"
    /\ escaped' = escape_xml(translated)
    /\ pc' = "escaped"
    /\ UNCHANGED <<text, fmt, translated, linked, detectVars, renderVars, sessionVars>>

\* lines 516-524 (542-549)
PdfLink ==
    /\ pc = "escaped" /\ fmt = "pdf"
    /\ linked' = link_xml(escaped)
    /\ pc' = "linked"
    /\ UNCHANGED <<text, fmt, translated, escaped, detectVars, renderVars, sessionVars>>

TextNext ==
    \/ LatexMath
    \/ LatexEscape
    \/ LatexLink
    \/ PdfMath
    \/ PdfDrop
    \/ PdfEscape
    \/ PdfLink

SpecText == TextInit /\ [][TextNext]_vars

(***************************************************************************)
(* main: the inputs of a session.                                          *)
(***************************************************************************)
s_title   == <<"R","&","D"," ","1","0","1">>
s_author  == <<"A","d","a">>
s_ml      == <<"M","a","c","h","i","n","e"," ","L","e","a","r","n","i","n","g">>
s_sarah   == <<"D","r","."," ","S","a","r","a","h"," ","C","h","e","n">>
t_Welcome == <<"W","e","l","c","o","m","e"," ","t","o"," ","t","h","i","s"," ","c","o","u","r","s","e",".">>
t_line    == <<"y"," ","="," ","m","x"," ","+"," ","b">>

\* get_sample_json (lines 560-622), with fewer and shorter texts
d_sample ==
    Object(Str(s_ml), Str(s_sarah),
           List(<<Entry(0, "str", t_Welcome), Entry(1, "str", t_ChapterBasics),
                  Entry(2, "str", t_line), Entry(3, "str", t_Section11),
                  Entry(4, "str", t_Hello)>>))

d_course ==
    Object(Str(s_title), Str(s_author),
           List(<<Entry(0, "str", t_ChapterBasics), Entry(1, "str", p_example)>>))
d_plain          == Object(Absent, Absent, List(<<Entry(0, "str", t_Hello)>>))
d_null_text      == Object(Str(s_title), Absent,
                           List(<<Entry(0, "str", t_Hello), Entry(1, "nonstr", <<>>)>>))
d_no_transcript  == Object(Str(s_title), Absent, Absent)
d_null_title     == Object(Null, Absent, List(<<Entry(0, "str", t_Hello)>>))
d_null_transcript == Object(Absent, Absent, Null)

s_sharp   == <<"C","#"," ","&"," ","C","o">>
s_under   == <<"A","_","B">>
t_ChapterPure == <<"C","h","a","p","t","e","r"," ","1",":"," ","1","0","0","%"," ","P","u","r","e">>
d_reserved ==
    Object(Str(s_sharp), Str(s_under),
           List(<<Entry(0, "str", t_ChapterPure), Entry(1, "str", p_percent)>>))

\* What json.load and json.loads may return (lines 690, 703).
Documents == {d_course, d_plain, d_null_text, d_no_transcript, d_null_title,
              d_null_transcript, d_reserved, Array, EmptyDoc}

\* What the uploader or the text area may hold: nothing, text that is no JSON,
\* or the text of a document.
JsonInputs == {NoInput, [kind |-> "invalid", doc |-> EmptyDoc]}
              \cup {[kind |-> "doc", doc |-> d] : d \in Documents}

c_latex  == <<"\\","d","o","c","u","m","e","n","t","c","l","a","s","s","{","b","o","o","k","}">>
c_fenced == <<ch_backquote, ch_backquote, ch_backquote, "l","a","t","e","x","\n">>
            \o c_latex \o <<"\n", ch_backquote, ch_backquote, ch_backquote>>
c_blank  == <<" ", "\n">>
c_fence  == <<ch_backquote, ch_backquote, ch_backquote, "\n",
              ch_backquote, ch_backquote, ch_backquote>>

\* What the library may do with the elements: Paragraph raises on line 473,
\* doc.build raises on line 553, or the document is built.
PdfOutcomes == {"raises", "fails", "built"}

\* What the remote service may answer.
AiResponses ==
    {[kind |-> k, content |-> <<>>] : k \in {"timeout", "error", "status", "badbody"}}
    \cup {[kind |-> "ok", content |-> c] : c \in {c_latex, c_fenced, c_blank, c_fence}}

\* The call of generate_latex_manual on lines 747 and 750: it raises, or
\* returns the document.
call_manual(d) ==
    IF manual_raises(d) THEN [raised |-> TRUE, latex |-> <<>>]
    ELSE [raised |-> FALSE, latex |-> generate_latex_manual(d)]

\* lines 769-835, the main content area of a run: .get on a list (line 776),
\* len(None) (line 780) and detect_structure (line 825) raise
display_raises(d) ==
    \/ d.shape # "object"
    \/ d.transcript.kind = "null"
    \/ detect_structure(get_transcript(d)).raised

\* The call of generate_pdf_with_reportlab on line 759, up to line 549: it
\* raises, or has the elements to build.
call_pdf(d) ==
    IF pdf_raises(d) THEN [raised |-> TRUE, elements |-> <<>>]
    ELSE [raised |-> FALSE, elements |-> pdf_elements(d)]

\* What the calls of a session return, on every document and on every response
\* of the service: the session looks the calls up in memo.
Calls ==
    [manual  |-> [d \in Documents \cup {d_sample} |-> call_manual(d)],
     pdf     |-> [d \in Documents \cup {d_sample} |-> call_pdf(d)],
     display |-> [d \in Documents \cup {d_sample} |-> display_raises(d)],
     ai      |-> [r \in AiResponses |-> generate_latex_with_ai(r)]]

manual(d) == memo.manual[d]
pdf(d)    == memo.pdf[d]
ai(r)     == memo.ai[r]

\* The run raises in the main content area, drawn for transcript data data.
display(data) == truthy(data) /\ memo.display[data.v]

\* line 825: the main content area calls detect_structure, when lines 776-780
\* have not raised before
display_calls(data) ==
    IF truthy(data) /\ data.v.shape = "object" /\ data.v.transcript.kind # "null"
    THEN {<<"detect_structure", IF memo.display[data.v] THEN "raised" ELSE "returned">>}
    ELSE {}

\* The history of a run: click is what the button's code did, and the main
\* content area is drawn when that has not raised.
ran(button, click, data) ==
    [button |-> button, ai |-> click.ai,
     raised |-> click.raised \/ display(data),
     calls  |-> click.calls \cup (IF click.raised THEN {} ELSE display_calls(data))]

no_click == [ai |-> "none", raised |-> FALSE, calls |-> {}]

(***************************************************************************)
(* main, lines 675-716: the input section of a run.                        *)
(***************************************************************************)
input_section(choice, input, load_clicked) ==
    CASE choice = "upload" /\ input.kind = "doc" ->
           [json |-> Some(input.doc), shown |-> <<"Loaded">>]
      [] choice = "paste" /\ input.kind = "doc" ->
           [json |-> Some(input.doc), shown |-> <<"JSON parsed successfully">>]
      [] choice \in {"upload", "paste"} /\ input.kind = "invalid" ->
           [json |-> Nothing, shown |-> <<"Invalid JSON">>]
      [] choice = "sample" /\ load_clicked ->
           [json |-> Some(d_sample), shown |-> <<"Sample data loaded">>]
      [] OTHER -> [json |-> Nothing, shown |-> <<>>]

\* lines 715-716 (and 711): st.session_state.transcript_data after the section
loaded(data, section) == IF truthy(section.json) THEN section.json ELSE data

\* lines 736-753: the Generate LaTeX button on the transcript data; latex is the
\* text stored, or Nothing when none is stored by the run
generate_latex_click(data, with_ai, response) ==
    CASE ~truthy(data) ->
           [latex |-> Nothing, shown |-> <<"Please load transcript data first">>,
            ai |-> "none", raised |-> FALSE, calls |-> {}]
      [] truthy(data) /\ with_ai /\ ai_raises(data.v) ->
           [latex |-> Nothing, shown |-> <<>>, ai |-> "none", raised |-> TRUE,
            calls |-> {<<"generate_latex_with_ai", "raised">>}]
      [] truthy(data) /\ with_ai /\ ~ai_raises(data.v) ->
           LET r == ai(response)
           IN  IF has_text(r)
               THEN [latex |-> r.text, shown |-> <<"LaTeX generated with AI">>,
                     ai |-> response.kind, raised |-> FALSE,
                     calls |-> {<<"generate_latex_with_ai", "returned">>}]
               ELSE IF manual(data.v).raised
               THEN [latex |-> Nothing,
                     shown |-> <<"AI generation failed", "Falling back to manual generation...">>,
                     ai |-> response.kind, raised |-> TRUE,
                     calls |-> {<<"generate_latex_with_ai", "returned">>,
                                <<"generate_latex_manual", "raised">>}]
               ELSE [latex |-> Some(manual(data.v).latex),
                     shown |-> <<"AI generation failed", "Falling back to manual generation...",
                                 "LaTeX generated manually">>,
                     ai |-> response.kind, raised |-> FALSE,
                     calls |-> {<<"generate_latex_with_ai", "returned">>,
                                <<"generate_latex_manual", "returned">>}]
      [] OTHER ->
           IF manual(data.v).raised
           THEN [latex |-> Nothing, shown |-> <<>>, ai |-> "none", raised |-> TRUE,
                 calls |-> {<<"generate_latex_manual", "raised">>}]
           ELSE [latex |-> Some(manual(data.v).latex), shown |-> <<"LaTeX generated">>,
                 ai |-> "none", raised |-> FALSE,
                 calls |-> {<<"generate_latex_manual", "returned">>}]

\* lines 756-766: the Generate PDF button on the transcript data, the library
\* doing outcome; pdf is the bytes stored, or Nothing when none are stored
generate_pdf_click(data, outcome) ==
    CASE ~truthy(data) ->
           [pdf |-> Nothing, shown |-> <<"Please load transcript data first">>,
            ai |-> "none", raised |-> FALSE, calls |-> {}]
      [] truthy(data) /\ (pdf(data.v).raised \/ outcome = "raises") ->
           [pdf |-> Nothing, shown |-> <<>>, ai |-> "none", raised |-> TRUE,
            calls |-> {<<"generate_pdf_with_reportlab", "raised">>}]
      [] OTHER ->
           LET r == build_pdf(pdf(data.v).elements, outcome)
           IN  IF ~r.pdf.none
               THEN [pdf |-> r.pdf, shown |-> <<"PDF generated">>,
                     ai |-> "none", raised |-> FALSE,
                     calls |-> {<<"generate_pdf_with_reportlab", "returned">>}]
               ELSE [pdf |-> Nothing, shown |-> <<"PDF generation failed">>,
                     ai |-> "none", raised |-> FALSE,
                     calls |-> {<<"generate_pdf_with_reportlab", "returned">>}]

\* lines 135-141, and the widgets as they are first drawn
Init ==
    /\ transcript_data = Nothing
    /\ latex_content = Nothing
    /\ pdf_bytes = Nothing
    /\ api_key = FALSE
    /\ use_ai = FALSE
    /\ input_choice = "upload"
    /\ json_input = NoInput
    /\ messages = <<>>
    /\ run = NoRun
    /\ memo = Calls
    /\ pc = "session"
    /\ NoDetect
    /\ NoRender
    /\ NoText

\* lines 665-668
key_shown(key) == IF key THEN <<"API key provided">> ELSE <<"Manual processing mode">>

\* A run of the script with no button pressed and the widgets as given.
Rerun(key, choice, input) ==
    LET section == input_section(choice, input, FALSE)
    IN  /\ transcript_data' = loaded(transcript_data, section)
        /\ messages' = key_shown(key) \o section.shown
        /\ run' = ran("none", no_click, loaded(transcript_data, section))

\* line 675: another input source is chosen; its widget is drawn empty
ChooseInput ==
    /\ \E choice \in {"upload", "paste", "sample"} :
         /\ choice # input_choice
         /\ input_choice' = choice
         /\ json_input' = NoInput
         /\ Rerun(api_key, choice, NoInput)
    /\ UNCHANGED <<latex_content, pdf_bytes, api_key, use_ai, pc, memo, detectVars, renderVars, textVars>>

\* lines 682-706: a file is uploaded or a text is pasted (or taken away)
ProvideInput ==
    /\ input_choice \in {"upload", "paste"}
    /\ \E input \in JsonInputs :
         /\ input # json_input
         /\ json_input' = input
         /\ Rerun(api_key, input_choice, input)
    /\ UNCHANGED <<latex_content, pdf_bytes, api_key, use_ai, input_choice, pc, memo,
                   detectVars, renderVars, textVars>>

\* lines 659-665 and 723-728: the key is entered or cleared; the checkbox is
\* drawn anew with value=bool(api_key)
EnterApiKey ==
    /\ api_key' = ~api_key
    /\ use_ai' = ~api_key
    /\ Rerun(~api_key, input_choice, json_input)
    /\ UNCHANGED <<latex_content, pdf_bytes, input_choice, json_input, pc, memo,
                   detectVars, renderVars, textVars>>

\* lines 723-728: the checkbox is enabled only with a key
ToggleUseAi ==
    /\ api_key
    /\ use_ai' = ~use_ai
    /\ Rerun(api_key, input_choice, json_input)
    /\ UNCHANGED <<latex_content, pdf_bytes, api_key, input_choice, json_input, pc, memo,
                   detectVars, renderVars, textVars>>

\* lines 708-712
ClickLoadSample ==
    /\ input_choice = "sample"
    /\ LET section == input_section(input_choice, json_input, TRUE)
       IN  /\ transcript_data' = loaded(transcript_data, section)
           /\ messages' = key_shown(api_key) \o section.shown
           /\ run' = ran("sample", no_click, loaded(transcript_data, section))
    /\ UNCHANGED <<latex_content, pdf_bytes, api_key, use_ai, input_choice, json_input, pc, memo,
                   detectVars, renderVars, textVars>>

\* lines 736-753, after the input section of the same run
ClickGenerateLatex ==
    /\ \E response \in AiResponses :
         LET section == input_section(input_choice, json_input, FALSE)
             data    == loaded(transcript_data, section)
             click   == generate_latex_click(data, use_ai /\ api_key, response)
         IN  /\ transcript_data' = data
             /\ latex_content' = IF click.latex.none THEN latex_content ELSE click.latex
             /\ messages' = key_shown(api_key) \o section.shown \o click.shown
             /\ run' = ran("latex", click, data)
    /\ UNCHANGED <<pdf_bytes, api_key, use_ai, input_choice, json_input, pc, memo,
                   detectVars, renderVars, textVars>>

\* lines 756-766, after the input section of the same run
ClickGeneratePdf ==
    /\ \E outcome \in PdfOutcomes :
         LET section == input_section(input_choice, json_input, FALSE)
             data    == loaded(transcript_data, section)
             click   == generate_pdf_click(data, outcome)
         IN  /\ outcome = "raises" => truthy(data) /\ paragraph_may_raise(data.v)
             /\ transcript_data' = data
             /\ pdf_bytes' = IF click.pdf.none THEN pdf_bytes ELSE click.pdf
             /\ messages' = key_shown(api_key) \o section.shown \o click.shown
             /\ run' = ran("pdf", click, data)
    /\ UNCHANGED <<latex_content, api_key, use_ai, input_choice, json_input, pc, memo,
                   detectVars, renderVars, textVars>>

Next ==
    \/ ChooseInput
    \/ ProvideInput
    \/ EnterApiKey
    \/ ToggleUseAi
    \/ ClickLoadSample
    \/ ClickGenerateLatex
    \/ ClickGeneratePdf

Spec == Init /\ [][Next]_vars

(***************************************************************************)
(* Claims about detect_structure, checked under SpecDetect.                *)
(***************************************************************************)
RECURSIVE sections_content(_, _)
sections_content(sections, n) ==
    IF n > Len(sections) THEN <<>>
    ELSE sections[n].content \o sections_content(sections, n + 1)

RECURSIVE chapters_content(_, _)
chapters_content(chapters, n) ==
    IF n > Len(chapters) THEN <<>>
    ELSE chapters[n].content \o sections_content(chapters[n].sections, 1)
         \o chapters_content(chapters, n + 1)

\* Every entry the tree holds, in document order.
tree_entries(st) == chapters_content(st.chapters, 1)

\* The content lists of the tree.
containers(st) ==
    {st.chapters[c].content : c \in DOMAIN st.chapters}
    \cup UNION {{st.chapters[c].sections[k].content : k \in DOMAIN st.chapters[c].sections}
                : c \in DOMAIN st.chapters}

\* The entry's trimmed text is non-empty.
non_empty(entry) == entry.kind = "str" /\ Strip(entry.text) # <<>>

matches_chapter(entry) == non_empty(entry) /\ chapter_match(Strip(entry.text)).found
matches_section(entry) == non_empty(entry) /\ section_match(Strip(entry.text)).found

\* The entries scanned so far.
scanned == {transcript[j] : j \in 1..i}

\* C1: the tree holds exactly the scanned entries with a non-empty trimmed text
\* that were not taken as a chapter or section marker, each once, and every
\* content list is in the order of the input; only entries that match a marker
\* pattern are taken as markers.
C1_ContentPreserved ==
    LET es == tree_entries(structure)
    IN  /\ \A a, b \in DOMAIN es : a # b => es[a] # es[b]
        /\ {es[a] : a \in DOMAIN es}
             = {e \in scanned : non_empty(e) /\ e.timestamp \notin consumed}
        /\ \A c \in containers(structure) :
             \A a, b \in DOMAIN c : a < b => c[a].timestamp < c[b].timestamp
        /\ \A e \in scanned :
             e.timestamp \in consumed => matches_chapter(e) \/ matches_section(e)

\* A marker was taken, an empty entry skipped or not, and two entries kept.
C1_Witness ==
    /\ pc = "done"
    /\ Len(transcript) = 3
    /\ consumed # {}
    /\ Len(tree_entries(structure)) = 2

\* C2 as stated: without a chapter marker the result is one chapter "1"
\* "Introduction" that contains every entry with a non-empty trimmed text.
C2_Original ==
    (pc = "done" /\ \A j \in DOMAIN transcript : ~matches_chapter(transcript[j]))
    => /\ Len(structure.chapters) = 1
       /\ structure.chapters[1].number = <<"1">>
       /\ structure.chapters[1].title = s_Introduction
       /\ \A j \in DOMAIN transcript :
            non_empty(transcript[j])
            => \E a \in DOMAIN tree_entries(structure) :
                 tree_entries(structure)[a] = transcript[j]

\* C2, amended: without a chapter marker, a transcript with no non-empty entry
\* gives no chapter at all, and any other gives the one chapter "1"
\* "Introduction", which contains every non-empty entry except those taken as
\* section markers (a section pattern that is not the first non-empty entry).
C2_Amended ==
    (pc = "done" /\ \A j \in DOMAIN transcript : ~matches_chapter(transcript[j]))
    => IF \A j \in DOMAIN transcript : ~non_empty(transcript[j])
       THEN structure.chapters = <<>>
       ELSE /\ Len(structure.chapters) = 1
            /\ structure.chapters[1].number = <<"1">>
            /\ structure.chapters[1].title = s_Introduction
            /\ \A j \in DOMAIN transcript :
                 non_empty(transcript[j])
                 => \/ \E a \in DOMAIN tree_entries(structure) :
                         tree_entries(structure)[a] = transcript[j]
                    \/ /\ transcript[j].timestamp \in consumed
                       /\ matches_section(transcript[j])
                       /\ \E h \in 1..(j - 1) : non_empty(transcript[h])

\* A marker-less transcript whose section marker was taken as a marker.
C2_Witness ==
    /\ pc = "done"
    /\ \A j \in DOMAIN transcript : ~matches_chapter(transcript[j])
    /\ Len(structure.chapters) = 1
    /\ Len(structure.chapters[1].sections) = 1
    /\ Len(tree_entries(structure)) = 2

\* What re gives for the chapter markers of the model: number and title.
C3_Parsed(t) ==
    CASE t = t_ChapterBasics -> <<<<"1">>, <<"B","a","s","i","c","s">>>>
      [] t = t_chapter2      -> <<<<"2">>, <<"C","h","a","p","t","e","r"," ","2">>>>
      [] t = t_seeChapter3   -> <<<<"3">>, <<"n","o","w">>>>
      [] t = t_ChapterSect   -> <<<<"4">>, <<"S","e","c","t","i","o","n"," ","4">>>>

\* The step from entry i to entry i + 1 of the scan.
C3_Step ==
    /\ (pc = "scan" /\ i' = i + 1 /\ matches_chapter(transcript[i + 1]))
       => /\ structure'.chapters
               = Append(structure.chapters,
                        [number |-> C3_Parsed(transcript[i + 1].text)[1],
                         title |-> C3_Parsed(transcript[i + 1].text)[2],
                         sections |-> <<>>, content |-> <<>>])
          /\ structure'.current_chapter = Len(structure'.chapters) - 1
          /\ structure'.current_section = None
    /\ (/\ pc = "scan" /\ i' = i + 1 /\ i >= 1
        /\ matches_chapter(transcript[i])
        /\ non_empty(transcript[i + 1])
        /\ ~matches_chapter(transcript[i + 1])
        /\ ~matches_section(transcript[i + 1]))
       => /\ structure'.chapters[Len(structure.chapters)].content = <<transcript[i + 1]>>
          /\ structure' = [structure EXCEPT
                             !.chapters[Len(structure.chapters)].content = <<transcript[i + 1]>>]

\* C3: an entry that matches the chapter pattern appends one chapter with the
\* parsed number and title and no content, makes it current and clears the
\* current section, and is not added to any content list; the non-marker entry
\* after it goes to that chapter's own content.  "Chapter 1: Basics" followed
\* by "Hello world." gives the one chapter "1" "Basics" with that one entry.
C3_ChapterMarker ==
    /\ [][C3_Step]_vars
    /\ []((/\ pc = "done"
           /\ Len(transcript) = 2
           /\ transcript[1] = Entry(1, "str", t_ChapterBasics)
           /\ transcript[2] = Entry(2, "str", t_Hello))
          => structure.chapters
               = <<[number |-> <<"1">>, title |-> <<"B","a","s","i","c","s">>,
                    sections |-> <<>>, content |-> <<Entry(2, "str", t_Hello)>>]>>)

\* "Chapter 1: Basics", "Hello world." scanned to the end.
C3_Witness ==
    /\ pc = "done"
    /\ Len(transcript) = 2
    /\ transcript[1].text = t_ChapterBasics
    /\ transcript[2].text = t_Hello
    /\ Len(structure.chapters) = 1
    /\ structure.chapters[1].content # <<>>

\* The cursors index existing nodes, the section cursor only under a chapter.
C4_Cursors ==
    /\ structure.current_chapter # None
       => structure.current_chapter \in 0..(Len(structure.chapters) - 1)
    /\ structure.current_section # None
       => /\ structure.current_chapter # None
          /\ structure.current_section
               \in 0..(Len(structure.chapters[structure.current_chapter + 1].sections) - 1)

\* A step adds a section only to the chapter that was current before it.
C4_Step ==
    /\ \A c \in DOMAIN structure.chapters :
         Len(structure'.chapters[c].sections) # Len(structure.chapters[c].sections)
         => /\ structure.current_chapter = c - 1
            /\ matches_section(transcript[i + 1])
            /\ Len(structure'.chapters[c].sections)
                 = Len(structure.chapters[c].sections) + 1
            /\ structure'.current_section = Len(structure.chapters[c].sections)
    /\ \A c \in DOMAIN structure'.chapters :
         c \notin DOMAIN structure.chapters => structure'.chapters[c].sections = <<>>
    /\ (pc = "scan" /\ i' = i + 1 /\ structure.current_chapter = None
        /\ matches_section(transcript[i + 1]))
       => /\ \A c \in DOMAIN structure'.chapters : structure'.chapters[c].sections = <<>>
          /\ ~matches_chapter(transcript[i + 1])
             => transcript[i + 1] \in {tree_entries(structure')[a] :
                                         a \in DOMAIN tree_entries(structure')}

\* C4: a section is created only while a chapter is current and is appended to
\* that chapter; a set section cursor implies a set chapter cursor and both
\* index existing nodes; a section pattern met while no chapter exists makes
\* no section (the entry is kept as content unless it is a chapter marker).
C4_SectionUnderChapter == []C4_Cursors /\ [][C4_Step]_vars

\* A section under the second chapter, the cursors on it.
C4_Witness ==
    /\ Len(structure.chapters) = 2
    /\ Len(structure.chapters[2].sections) = 1
    /\ structure.chapters[1].sections = <<>>
    /\ structure.current_chapter = 1
    /\ structure.current_section = 0

\* C5: detect_structure never raises.
C5_NeverRaises == pc # "raised"

(***************************************************************************)
(* Claims about the loop body of the renderers, checked under SpecText.    *)
(***************************************************************************)
has_char(t, c) == \E k \in DOMAIN t : t[k] = c

contains(hay, needle) ==
    \E k \in 0..(Len(hay) - Len(needle)) : SubSeq(hay, k + 1, k + Len(needle)) = needle

\* What process_math_text was given: the PDF renderer strips the text first.
math_input == IF fmt = "pdf" THEN Strip(text) ELSE text

\* C6: a text that contains the math delimiter $ is returned unchanged by
\* process_math_text.
C6_DelimitedUnchanged ==
    (pc \in {"math", "escaped", "linked"} /\ has_char(math_input, "$"))
    => translated = math_input

latex_reserved == {"\\", "&", "%", "$", "#", "_", "{", "}", "~", "^"}
xml_reserved   == {"&", "<", ">"}

\* The escape sequence the LaTeX pass is to give each character.
C7_EscapeOf(c) ==
    CASE c = "\\" -> <<"\\","t","e","x","t","b","a","c","k","s","l","a","s","h","{","}">>
      [] c = "~"  -> <<"\\","t","e","x","t","a","s","c","i","i","t","i","l","d","e","{","}">>
      [] c = "^"  -> <<"\\","t","e","x","t","a","s","c","i","i","c","i","r","c","u","m","{","}">>
      [] c \in {"&", "%", "$", "#", "_", "{", "}"} -> <<"\\", c>>
      [] OTHER -> <<c>>

C7_Mapped(t) == Concat([j \in DOMAIN t |-> C7_EscapeOf(t[j])], 1, Len(t))

\* C7: the LaTeX escaping pass gives the character-by-character mapping of its
\* input: each reserved character escaped once, nothing a substitution wrote
\* rewritten by a later one.
C7_EscapedOnce ==
    (fmt = "latex" /\ pc \in {"escaped", "linked"})
    => escaped = C7_Mapped(translated)

\* C8: a text with none of the format's reserved characters leaves the
\* format's escaping pass unchanged.
C8_NoReservedUnchanged ==
    pc \in {"escaped", "linked"}
    => /\ (fmt = "latex" /\ \A c \in latex_reserved : ~has_char(translated, c))
          => escaped = translated
       /\ (fmt = "pdf" /\ \A c \in xml_reserved : ~has_char(translated, c))
          => escaped = translated

\* A text with spaces and LaTeX's reserved characters but none of XML's has
\* gone through the PDF renderer's escaping.
C8_Witness ==
    /\ pc = "escaped"
    /\ fmt = "pdf"
    /\ has_char(translated, " ")
    /\ has_char(translated, "%")
    /\ \A c \in xml_reserved : ~has_char(translated, c)

RECURSIVE urls_from(_, _)
\* The URLs of a text: the runs from http:// or https:// to the next whitespace.
urls_from(t, pos) ==
    LET m == SearchFrom(url_re, t, pos, FALSE)
    IN  IF ~m.found THEN {} ELSE {SubSeq(t, m.s, m.e - 1)} \cup urls_from(t, m.e)

\* The hyperlink construct of the format around the URL u.
C9_Construct(u) ==
    IF fmt = "latex"
    THEN <<"\\","u","r","l","{">> \o u \o <<"}">>
    ELSE <<"<","l","i","n","k"," ","h","r","e","f","=","\"">> \o u
         \o <<"\""," ","c","o","l","o","r","=","\"","b","l","u","e","\"",">">> \o u
         \o <<"<","/","l","i","n","k",">">>

\* C9: the paragraph emitted for a text holds, for each URL of the text, the
\* format's hyperlink construct around exactly that URL, and the linking step
\* leaves the prose before the first URL as it was.
C9_UrlWrapped ==
    pc = "linked"
    => /\ \A u \in urls_from(text, 1) : contains(linked, C9_Construct(u))
       /\ LET m == Search(url_re, escaped, FALSE)
          IN  m.found => SubSeq(linked, 1, m.s - 1) = SubSeq(escaped, 1, m.s - 1)

(***************************************************************************)
(* Claims on the session (Spec).                                           *)
(***************************************************************************)
shown(m) == \E k \in DOMAIN messages : messages[k] = m

\* The remote service was asked in the run and gave no text.
ai_failed ==
    /\ run.button = "latex"
    /\ run.ai # "none"
    /\ ~shown("LaTeX generated with AI")

\* C10: whenever Generate LaTeX runs with a loaded transcript and AI enabled and
\* the remote service times out, answers non-200, fails in transport or returns
\* no text, the run ends without an exception, the document of
\* generate_latex_manual for the loaded transcript (which is not empty) is
\* stored as the LaTeX result, and the fallback is shown; what is shown never
\* says the local output was generated with AI.
C10_FallbackStored ==
    ai_failed =>
        /\ ~run.raised
        /\ ~manual(transcript_data.v).raised
        /\ latex_content = Some(manual(transcript_data.v).latex)
        /\ latex_content.v # <<>>
        /\ shown("Falling back to manual generation...")
        /\ shown("LaTeX generated manually")

\* The fallback on a transcript generate_latex_manual does not raise on.
C10_FallbackWorks ==
    (ai_failed /\ ~manual(transcript_data.v).raised) =>
        /\ ~run.raised
        /\ latex_content = Some(manual(transcript_data.v).latex)
        /\ latex_content.v # <<>>
        /\ shown("Falling back to manual generation...")
        /\ shown("LaTeX generated manually")

C10_FallbackReached == ai_failed /\ ~run.raised /\ run.ai = "timeout"


(***************************************************************************)
(* Claims about the renderers' loops, checked under SpecDetect.            *)
(***************************************************************************)
\* The body paragraphs a renderer has emitted, in order.
paragraphs(doc) == SelectSeq(doc, LAMBDA part : part.kind = "par")

\* A text that matches the chapter-marker or the section-marker pattern.
is_marker(txt) == chapter_match(txt).found \/ section_match(txt).found

\* C12: no body paragraph emitted by the LaTeX renderer or by the PDF renderer
\* has a text that matches the chapter-marker pattern or the section-marker
\* pattern.
C12_NoMarkerParagraph ==
    /\ \A j \in DOMAIN paragraphs(latex) : ~is_marker(paragraphs(latex)[j].text)
    /\ \A j \in DOMAIN paragraphs(elements) : ~is_marker(paragraphs(elements)[j].text)

\* What does hold of C12: no paragraph matches the chapter-marker pattern, and
\* a paragraph that matches the section-marker pattern is the first paragraph
\* of the first chapter, emitted for the first non-empty entry of the
\* transcript.
C12_OnlyLeadingSection ==
    \A doc \in {latex, elements} :
      \A j \in DOMAIN doc :
        doc[j].kind = "par"
        => /\ ~chapter_match(doc[j].text).found
           /\ section_match(doc[j].text).found
              => /\ j = 2
                 /\ structure.chapters[1].title = s_Introduction
                 /\ \A h \in 1..(structure.chapters[1].content[1].timestamp - 1) :
                      ~non_empty(transcript[h])

\* Both renderers have emitted a section marker as a body paragraph.
C12_LatexLeak == pc = "latex" /\ \E j \in DOMAIN latex :
                   latex[j].kind = "par" /\ section_match(latex[j].text).found
C12_PdfLeak   == pc = "pdf" /\ \E j \in DOMAIN elements :
                   elements[j].kind = "par" /\ section_match(elements[j].text).found

\* The entries of the transcript with a non-empty trimmed text that
\* detect_structure has not taken as a chapter or section marker, in the order
\* of the input.
content_entries ==
    SelectSeq(transcript, LAMBDA entry : non_empty(entry) /\ entry.timestamp \notin consumed)

\* The entries the paragraphs of a document were emitted for, in order.
emitted_for(doc) == [j \in DOMAIN paragraphs(doc) |-> paragraphs(doc)[j].of]

\* C15: the body paragraphs of the LaTeX renderer, and those of the PDF
\* renderer, are one for each non-empty entry that is no marker of the
\* structure, in the order of the input; the PDF renderer's filter removes none
\* of them.
C15_OrderPreserved ==
    /\ pc = "latex"
       => emitted_for(latex) = [j \in DOMAIN content_entries |-> content_entries[j].timestamp]
    /\ pc = "pdf"
       => emitted_for(elements) = [j \in DOMAIN content_entries |-> content_entries[j].timestamp]

\* The PDF renderer has walked a chapter with content of its own and a section
\* with content.
C15_Witness ==
    /\ pc = "pdf"
    /\ Len(structure.chapters) = 1
    /\ structure.chapters[1].content # <<>>
    /\ Len(structure.chapters[1].sections) = 1
    /\ structure.chapters[1].sections[1].content # <<>>
    /\ Len(paragraphs(elements)) = 2

(***************************************************************************)
(* Claims about the generators and the session, checked under Spec.        *)
(***************************************************************************)
\* A call main made in the last run, and how it ended.
called(name, outcome) == <<name, outcome>> \in run.calls

\* C11: generate_latex_with_ai never raises to its caller: no run of the
\* session has a call of it that ended with an exception.
C11_NeverRaises == ~called("generate_latex_with_ai", "raised")

\* The part of C11 about the pair: for every answer of the service, a 200
\* answer with a readable body gives a text and no error, and a timeout, another
\* status, a transport error and an unreadable body give no text and an error
\* message.
C11_PairContract ==
    pc = "session"
    => \A r \in AiResponses :
         IF r.kind = "ok"
         THEN ~ai(r).text.none /\ ai(r).error.none
         ELSE ai(r).text.none /\ ~ai(r).error.none /\ ai(r).error.v # ""

\* A run in which the service was asked and generate_latex_with_ai returned.
C11_Returned ==
    /\ run.button = "latex"
    /\ run.ai \in {"timeout", "error", "status", "badbody"}
    /\ called("generate_latex_with_ai", "returned")

\* C13: a failure of the PDF renderer never raises to the caller: no run of the
\* session has a call of generate_pdf_with_reportlab that ended with an
\* exception.
C13_NeverRaises == ~called("generate_pdf_with_reportlab", "raised")

\* The part of C13 about the stored results: a Generate PDF run in which the
\* renderer fails, by returning an error or by raising, leaves the stored LaTeX
\* and the stored PDF bytes as they were, and a returned error is shown.
C13_FailureLeavesResults ==
    [][(run'.button = "pdf" /\ (run'.raised \/ ~(shown("PDF generated"))'))
       => /\ UNCHANGED <<latex_content, pdf_bytes>>
          /\ (called("generate_pdf_with_reportlab", "returned"))'
             => (shown("PDF generation failed"))']_vars

\* A failed build after a LaTeX generation for the same transcript.
C13_BuildFailed ==
    /\ run.button = "pdf"
    /\ shown("PDF generation failed")
    /\ ~latex_content.none
    /\ ~pdf_bytes.none

\* A JSON object without the key transcript.
no_transcript(d) == d.shape = "object" /\ d.transcript.kind = "absent"

\* C14: a JSON object without the key transcript is rejected before the core
\* runs: it is never stored as the transcript data of the session.
C14_MissingTranscriptRejected ==
    ~(truthy(transcript_data) /\ no_transcript(transcript_data.v))

\* The part of C14 about malformed JSON: a run whose upload or pasted text is
\* no JSON shows the parse error and leaves the transcript data as it was.
C14_MalformedRejected ==
    [][json_input'.kind = "invalid"
       => transcript_data' = transcript_data /\ (shown("Invalid JSON"))']_vars

\* A document was produced from an object without transcript, and the detector
\* has run on it.
C14_DocumentProduced ==
    /\ truthy(transcript_data) /\ no_transcript(transcript_data.v)
    /\ run.button = "latex" /\ ~run.raised
    /\ called("generate_latex_manual", "returned")
    /\ called("detect_structure", "returned")
    /\ latex_content = Some(manual(transcript_data.v).latex)

\* The stored LaTeX is what Generate LaTeX gives for transcript data data: the
\* text of the service (which the model cannot tell apart by transcript) or
\* the local document of data.
latex_of(data) ==
    /\ truthy(data)
    /\ \/ latex_content.v[1].kind = "ai"
       \/ ~manual(data.v).raised /\ latex_content.v = manual(data.v).latex

\* The stored PDF is what Generate PDF gives for transcript data data.
pdf_of(data) ==
    /\ truthy(data)
    /\ ~pdf(data.v).raised
    /\ pdf_bytes.v = pdf(data.v).elements

\* The run has drawn the Downloads tab (lines 792-821): it has got as far as
\* the call of detect_structure on line 825.
downloads_drawn ==
    called("detect_structure", "returned") \/ called("detect_structure", "raised")

\* C16: in every state of the session, a stored LaTeX result and a stored PDF
\* result that are offered for download are those of the transcript that is
\* stored as the transcript data.
C16_CurrentArtifacts ==
    downloads_drawn
    => /\ ~latex_content.none => latex_of(transcript_data)
       /\ ~pdf_bytes.none => pdf_of(transcript_data)

\* What does hold of C16: a run that stores a result stores the one of the
\* transcript data of that run, and no other run changes the stored results.
C16_StoredAtGeneration ==
    [][/\ latex_content' # latex_content
          => run'.button = "latex" /\ (latex_of(transcript_data))'
       /\ pdf_bytes' # pdf_bytes
          => run'.button = "pdf" /\ (pdf_of(transcript_data))']_vars

\* Another transcript has been loaded after the results were stored.
C16_Stale ==
    /\ run.button = "none" /\ ~run.raised /\ downloads_drawn
    /\ ~latex_content.none /\ ~latex_of(transcript_data)
    /\ ~pdf_bytes.none /\ ~pdf_of(transcript_data)

\* The reserved characters that LaTeX escapes with a backslash before them, and
\* the two that have no such form.
backslash_escaped == {"&", "%", "$", "#", "_", "{", "}"}
never_plain       == {"~", "^"}

\* A reserved character stands in t as it is, with no backslash before it.
unescaped(t) ==
    \E p \in DOMAIN t :
      \/ t[p] \in never_plain
      \/ t[p] \in backslash_escaped /\ (p = 1 \/ t[p - 1] # "\\")

\* The parts of a document that generate_latex_manual fills with a title, an
\* instructor or a marker title taken from the input.
headings(doc) ==
    SelectSeq(doc, LAMBDA part : part.kind \in {"title", "author", "chapter", "section"})

\* The stored LaTeX is a document of generate_latex_manual.
stored_manual == ~latex_content.none /\ latex_content.v[1].kind = "preamble"

\* C17: in the document of generate_latex_manual no reserved character of the
\* input stands unescaped in \title, \author, \chapter or \section.
C17_HeadingsEscaped ==
    stored_manual
    => \A j \in DOMAIN headings(latex_content.v) :
         ~unescaped(headings(latex_content.v)[j].text)

\* What does hold of C17 in \title and \author: the three characters that
\* lines 311-312 replace never stand unescaped there.
C17_TitleEscapesThree ==
    stored_manual
    => \A j \in DOMAIN headings(latex_content.v) :
         LET h == headings(latex_content.v)[j]
         IN  h.kind \in {"title", "author"}
             => \A p \in DOMAIN h.text :
                  h.text[p] \in {"&", "%", "$"} => p > 1 /\ h.text[p - 1] = "\\"

\* A document whose \title, \author and \chapter each hold an unescaped
\* reserved character, beside an escaped one in \title.
C17_RawHeadings ==
    /\ stored_manual
    /\ \A k \in {"title", "author", "chapter"} :
         \E j \in DOMAIN latex_content.v :
           latex_content.v[j].kind = k /\ unescaped(latex_content.v[j].text)
    /\ \E j \in DOMAIN latex_content.v :
         latex_content.v[j].kind = "title" /\ contains(latex_content.v[j].text, <<"\\", "&">>)

====
